---- MODULE Spec2Model ----
(***************************************************************************)
(* The per-call media-bridge session of ai-calling: one telephony          *)
(* WebSocket (`connection`) bridged to OpenAI Realtime WebSockets          *)
(* (`openAiWs`), the process-wide prompt registry, and the end-of-call     *)
(* timer.  The repository holds several iterations of the same server;     *)
(* `impl` selects the iteration whose handlers run:                        *)
(*   "v3"  src/src/index.js lines 656-1023  (streamToCallSid, isSpeaking)  *)
(*   "p1"  src/unnamed/part_001             (logConversation, response.done)*)
(*   "v2"  src/src/index.js lines 324-655   (retries, assistantMessageBuffer)*)
(*   "v1"  src/src/index.js lines 1-323     (connection.socket handlers)    *)
(* Text is a sequence of one-character strings, so that the regular        *)
(* expressions, includes, replace and trim of the handlers are computed    *)
(* character by character.                                                 *)
(***************************************************************************)
EXTENDS Integers, Sequences, FiniteSets, TLC

(* ------------------------------ bounds --------------------------------- *)
\* adapter sockets a session may create
MaxSocks == 5
\* adapter sockets of a session where they are interleaved with the
\* telephony side (further start messages, teardown)
MaxConns == 2
\* response ids the speech service may issue
MaxResp == 2
\* END_CALL timers that may be scheduled
MaxTimers == 2
\* entries of the conversation log
MaxLog == 2
\* characters of the pending assistant buffer
MaxBuf == 15
\* adapter sockets of the session of the other call, pending retries included
MaxPeerSocks == 3
\* end-of-call timers of the session of the other call
MaxPeerTimers == 1

\* if (retryCount < 3): the retry limit of initializeOpenAI(retryCount)
RetryLimit == 3

(* ------------------------------ text ----------------------------------- *)
None == "none"

\* the characters \s and trim() take for white space: tab, line feed, vertical
\* tab, form feed, carriage return, space, no-break space, the byte order
\* mark, the line and paragraph separators and the Unicode space separators;
\* a character that has no escape here is written as its code point
White ==
  {"\t", "\n", "U+000B", "\f", "\r", " ", "U+00A0", "U+1680", "U+2000",
   "U+2001", "U+2002", "U+2003", "U+2004", "U+2005", "U+2006", "U+2007",
   "U+2008", "U+2009", "U+200A", "U+2028", "U+2029", "U+202F", "U+205F",
   "U+3000", "U+FEFF"}
Punct == {".", "!", "?"}

END_CALL == <<"[", "E", "N", "D", "_", "C", "A", "L", "L", "]">>

\* String.prototype.includes
Includes(s, t) ==
  \E i \in 1..(Len(s) - Len(t) + 1) : SubSeq(s, i, i + Len(t) - 1) = t

\* String.prototype.trim
RECURSIVE TrimStart(_)
TrimStart(s) ==
  IF s # <<>> /\ Head(s) \in White THEN TrimStart(Tail(s)) ELSE s

RECURSIVE TrimEnd(_)
TrimEnd(s) ==
  IF s # <<>> /\ s[Len(s)] \in White THEN TrimEnd(SubSeq(s, 1, Len(s) - 1)) ELSE s

Trim(s) == TrimEnd(TrimStart(s))

\* String.prototype.replace(t, ''): the first occurrence of t is removed
ReplaceFirst(s, t) ==
  IF Includes(s, t)
  THEN LET i == CHOOSE k \in 1..(Len(s) - Len(t) + 1) :
                  /\ SubSeq(s, k, k + Len(t) - 1) = t
                  /\ \A m \in 1..(k - 1) : SubSeq(s, m, m + Len(t) - 1) # t
       IN SubSeq(s, 1, i - 1) \o SubSeq(s, i + Len(t), Len(s))
  ELSE s

\* the last n characters of s
LastChars(s, n) == IF Len(s) <= n THEN s ELSE SubSeq(s, Len(s) - n + 1, Len(s))

\* completeMessage.match(/[.!?](\s|$)/)
SentenceBoundary(s) ==
  \E i \in 1..Len(s) : s[i] \in Punct /\ (i = Len(s) \/ s[i + 1] \in White)

\* message.match(/[.!?]$/)
EndsWithPunct(s) == s # <<>> /\ s[Len(s)] \in Punct

(* --------------------------- input alphabets ---------------------------- *)
Impls == {"v3", "p1", "v2", "v1"}
\* the iterations that track currentResponseId and commit at sentence ends
Tracking == {"v3", "p1"}

StreamSids == {"MZ1"}
CallSids == {"CA1"}
\* the stream and the call of a second session served by the same process
PeerStreamSids == {"MZ2"}
PeerCallSids == {"CA2"}
AllStreamSids == StreamSids \cup PeerStreamSids
AllCallSids == CallSids \cup PeerCallSids
Keys == AllStreamSids \cup AllCallSids

\* operator prompts, kept as one token of text
Prompts == {"Book a 3pm dentist appointment"}

\* audio payloads (opaque base64)
Payloads == {"a1", "a2"}

\* close codes of the adapter socket: normal, no status, abnormal
CloseCodes == {1000, 1005, 1006}

\* assistant transcript fragments
FragBye == <<"B", "y", "e", ".">>
FragMarker == <<" ">> \o END_CALL
FragMarkerHead == <<"[", "E", "N", "D", "_">>
FragMarkerTail == <<"C", "A", "L", "L", "]">>
FragByeMarker == FragBye \o FragMarker
Fragments == {FragBye, FragByeMarker, FragMarkerHead, FragMarkerTail}

\* the fragments of the closing scenario, in their order of arrival:
\* "Thank you for your time.", " Goodbye.", " [END_CALL]"
FragThanks ==
  <<"T", "h", "a", "n", "k", " ", "y", "o", "u", " ", "f", "o", "r", " ",
    "y", "o", "u", "r", " ", "t", "i", "m", "e", ".">>
FragGoodbye ==
  <<" ", "G", "o", "o", "d", "b", "y", "e", ".">>
Scenario == <<FragThanks, FragGoodbye, FragMarker>>

\* caller transcripts
Transcripts == {<<"H", "i", ".">>, <<"\t", "n", "o", "\r", "\n">>}

(* ------------------------------- state ---------------------------------- *)
VARIABLES
  impl,               \* which iteration of the server runs
  connSocket,         \* whether `connection.socket` is defined in this build
  running,            \* the server process is running
  keyValid,           \* OPENAI_API_KEY can be sent as a header value
  twCloses,           \* calls of connection.socket.close() made so far
  pendingCalls,       \* POST /make-call requests awaiting calls.create
  activeCallPrompts,  \* Map: key -> prompt
  streamToCallSid,    \* Map: stream sid (or undefined) -> call sid (v3)
  issued,             \* call sids the telephony provider has issued
  tw,                 \* readyState of the telephony socket
  started,            \* the telephony peer has sent its start message
  streamSid,
  socks,              \* every adapter WebSocket created so far
  openAiWs,           \* index into socks of the variable openAiWs, 0 = null
  conversation,
  completeMessage,
  currentResponseId,
  currentMessageId,
  isSpeaking,
  nextResp,           \* next response id of the speech service
  timersPending,      \* END_CALL timers scheduled and not yet fired
  timersFired,
  retryTimers,        \* retry timers pending, per retryCount they will pass (v2)
  evt,                \* the event handled by the last step
  twSent,             \* frames passed to connection.send by the last step
  aiSent,             \* messages passed to openAiWs.send by the last step
  needClear,          \* an interruption happened and no clear was sent since
  interrupted,        \* response ids that were active at a speech_started
  startCallSid,       \* customParameters.CallSid of the start message
  markerHeard,        \* the transcript received so far contains [END_CALL]
  heardTail,          \* the last characters of the transcript received so far
  claimed,            \* registry keys under which a lookup returned a prompt
  userSpeaking,       \* a speech_started was handled and no speech_stopped since
  peer                \* the session of another call: its own streamSid and sockets

vars == <<impl, connSocket, running, keyValid, twCloses, pendingCalls, activeCallPrompts, streamToCallSid, issued, tw,
          started, streamSid, socks, openAiWs, conversation, completeMessage,
          currentResponseId, currentMessageId, isSpeaking, nextResp,
          timersPending, timersFired, retryTimers, evt, twSent, aiSent, needClear,
          interrupted, startCallSid, markerHeard, heardTail, claimed,
          userSpeaking, peer>>

\* the variables of the registry, of the sockets, of the session
regVars == <<activeCallPrompts, streamToCallSid, issued, pendingCalls>>
textVars == <<conversation, completeMessage>>
respVars == <<currentResponseId, currentMessageId, isSpeaking>>
timerVars == <<timersPending, timersFired, retryTimers>>
heardVars == <<markerHeard, heardTail>>
ghostVars == <<interrupted, startCallSid, markerHeard, heardTail, claimed,
               userSpeaking>>

Init ==
  /\ impl \in Impls
  \* the handlers of v3, p1 and v2 sit on `connection` itself (connection.on,
  \* connection.send), which delivers messages only where connection is the
  \* WebSocket and connection.socket is undefined; those of v1 sit on
  \* connection.socket
  /\ connSocket = (impl = "v1")
  \* process.env.OPENAI_API_KEY is checked for presence only; with a value
  \* that no header can carry new WebSocket(...) throws
  /\ keyValid \in BOOLEAN
  /\ twCloses = 0
  /\ running = TRUE
  /\ pendingCalls = {}
  /\ activeCallPrompts = [k \in Keys |-> None]
  \* (None is the key `undefined`, which set, get and delete accept)
  /\ streamToCallSid = [s \in AllStreamSids \cup {None} |-> None]
  /\ issued = {}
  /\ tw = "open"
  /\ started = FALSE
  /\ streamSid = None
  /\ socks = <<>>
  /\ openAiWs = 0
  /\ conversation = <<>>
  /\ completeMessage = <<>>
  /\ currentResponseId = None
  /\ currentMessageId = None
  /\ isSpeaking = FALSE
  /\ nextResp = 1
  /\ timersPending = 0
  /\ timersFired = 0
  /\ retryTimers = [rc \in 1..RetryLimit |-> 0]
  /\ evt = [type |-> "init"]
  /\ twSent = <<>>
  /\ aiSent = <<>>
  /\ needClear = FALSE
  /\ interrupted = {}
  /\ startCallSid = None
  /\ markerHeard = FALSE
  /\ heardTail = <<>>
  /\ claimed = {}
  /\ userSpeaking = FALSE
  /\ peer = [streamSid |-> None, tw |-> "open", socks |-> <<>>, openAiWs |-> 0,
             timers |-> 0,
             retryTimers |-> [rc \in 1..RetryLimit |-> 0]]

(* ------------------------------ helpers --------------------------------- *)
\* Map.prototype.get: undefined for a key the map does not hold
MapGet(m, k) == IF k \in DOMAIN m THEN m[k] ELSE None

RespId(n) == <<"resp_1", "resp_2", "resp_3", "resp_4", "resp_5">>[n]
ItemId(n) == <<"item_1", "item_2", "item_3", "item_4", "item_5">>[n]

\* new WebSocket(...): readyState CONNECTING; rc is the retryCount its
\* handlers close over, resp the response the service is generating on it,
\* ready whether it has reported open, cfg the session.update messages it
\* has been sent while open, closes the calls of close() made on it
NewSock(rc) ==
  [st |-> "connecting", rc |-> rc, resp |-> 0, err |-> FALSE,
   ready |-> FALSE, cfg |-> 0, closes |-> 0]

\* openAiWs?.readyState === WebSocket.OPEN
AiOpen == openAiWs # 0 /\ socks[openAiWs].st = "open"

\* WebSocket.prototype.close(): starts the closing handshake of a socket
\* that is connecting or open and does nothing on one that is closing or
\* closed; the call is counted
CloseCalled(sock) ==
  [sock EXCEPT !.st = IF @ \in {"connecting", "open"} THEN "closing" ELSE @,
               !.closes = @ + 1]

\* an openAiWs.close() that does not look at readyState
CloseAiUnguarded(ss) ==
  IF openAiWs # 0 THEN [ss EXCEPT ![openAiWs] = CloseCalled(@)] ELSE ss

\* if (openAiWs?.readyState === WebSocket.OPEN) { openAiWs.close(); }
CloseAiIfOpen(ss) ==
  IF AiOpen THEN [ss EXCEPT ![openAiWs] = CloseCalled(@)] ELSE ss

\* openAiWs.send(JSON.stringify(m)): the call, the socket it is made on and
\* that socket's readyState at the call
AiMsg(m) ==
  [to |-> openAiWs,
   rs |-> IF openAiWs = 0 THEN "null" ELSE socks[openAiWs].st,
   msg |-> m]

\* connection.send(JSON.stringify({event: 'media', streamSid, media: {payload}}))
MediaFrame(payload) ==
  [event |-> "media", streamSid |-> streamSid, payload |-> payload, rs |-> tw]

\* the frames of `frames` that reach the peer: WebSocket.prototype.send
\* transmits only while readyState is OPEN, the call is discarded on a
\* socket that is closing or closed
Transmitted_Unchecked(frames) == frames

Transmitted(frames) == SelectSeq(frames, LAMBDA f : f.rs = "open")

HasMedia(frames) == \E i \in 1..Len(frames) : frames[i].event = "media"
HasClear(frames) == \E i \in 1..Len(frames) : frames[i].event = "clear"

\* a media frame of `frames` that no clear frame precedes
MediaBeforeClear(frames) ==
  \E i \in 1..Len(frames) :
    /\ frames[i].event = "media"
    /\ \A j \in 1..(i - 1) : frames[j].event # "clear"

Out(e, t, a) ==
  /\ evt' = e
  /\ twSent' = t
  /\ aiSent' = a
  /\ needClear' = IF HasClear(t) THEN FALSE ELSE needClear

\* messages reach the handlers of a socket until its close event
TwLive == tw \in {"open", "closing"}
\* (a socket that failed is torn down and delivers nothing more)
SockLive(k) ==
  /\ k \in 1..Len(socks)
  /\ socks[k].st \in {"open", "closing"}
  /\ ~socks[k].err

(* --------------------------- prompt registry ---------------------------- *)
\* POST /make-call up to its await: twilioClient.calls.create is under way
\* and the telephony provider issues the sid of the new call, whose stream
\* may start before the route resumes
MakeCallCreate(sid, prompt) ==
  /\ running
  /\ sid \notin issued
  /\ issued' = issued \cup {sid}
  /\ pendingCalls' = pendingCalls \cup {[sid |-> sid, prompt |-> prompt]}
  /\ Out([type |-> "make-call", callSid |-> sid], <<>>, <<>>)
  /\ UNCHANGED <<impl, connSocket, running, keyValid, twCloses, peer, activeCallPrompts,
                 streamToCallSid, tw, started, streamSid, socks, openAiWs,
                 textVars, respVars, nextResp, timerVars, ghostVars>>

\* POST /make-call after its await: activeCallPrompts.set(call.sid, prompt)
MakeCallStore(call) ==
  /\ call \in pendingCalls
  /\ pendingCalls' = pendingCalls \ {call}
  /\ activeCallPrompts' = [activeCallPrompts EXCEPT ![call.sid] = call.prompt]
  /\ Out([type |-> "make-call-stored", callSid |-> call.sid], <<>>, <<>>)
  /\ UNCHANGED <<impl, connSocket, running, keyValid, twCloses, peer, streamToCallSid, issued, tw,
                 started, streamSid, socks, openAiWs, textVars, respVars,
                 nextResp, timerVars, ghostVars>>

\* the registry lookup of openAiWs.on('open'), iteration v3:
\*   callSid = streamToCallSid.get(streamSid);
\*   customPrompt = callSid ? activeCallPrompts.get(callSid) : null
LookupPrompt_v3 ==
  LET callSid == MapGet(streamToCallSid, streamSid)
  IN IF callSid # None THEN MapGet(activeCallPrompts, callSid) ELSE None

\* iteration p1: customPrompt = activeCallPrompts.get(streamSid)
LookupPrompt_p1 == MapGet(activeCallPrompts, streamSid)

\* iteration v2: customPrompt = activeCallPrompts.get(streamSid)
LookupPrompt_v2 == MapGet(activeCallPrompts, streamSid)

\* iteration v1: customPrompt = streamSid ? activeCallPrompts.get(streamSid) : null
LookupPrompt_v1 ==
  IF streamSid # None THEN MapGet(activeCallPrompts, streamSid) ELSE None

LookupPrompt ==
  CASE impl = "v3" -> LookupPrompt_v3
    [] impl = "p1" -> LookupPrompt_p1
    [] impl = "v2" -> LookupPrompt_v2
    [] impl = "v1" -> LookupPrompt_v1

\* the key the lookup reads the registry under
LookupKey ==
  IF impl = "v3" THEN MapGet(streamToCallSid, streamSid) ELSE streamSid

\* a createSystemMessage without the default: the prompt as it was looked up
createSystemMessage_NoDefault(customPrompt) == <<customPrompt>>

\* createSystemMessage, iteration v3: customPrompt || 'No specific task provided.'
createSystemMessage_v3(customPrompt) ==
  IF customPrompt # None THEN <<customPrompt>>
  ELSE <<"No specific task provided.">>

\* createSystemMessage, iteration p1: the base message, then the task
createSystemMessage_p1(customPrompt) ==
  IF customPrompt # None
  THEN <<"baseMessage", "\n\nYOUR SPECIFIC TASK:\n", customPrompt,
         "\n\nRemember: Complete this task exactly as specified. Do not deviate from the given objective.">>
  ELSE <<"baseMessage">>

\* iteration v2, inline in the session.update:
\*   customPrompt ? `${SYSTEM_MESSAGE}\n\nSpecific task: ${customPrompt}` : SYSTEM_MESSAGE
Instructions_v2(customPrompt) ==
  IF customPrompt # None
  THEN <<"SYSTEM_MESSAGE", "\n\nSpecific task: ", customPrompt>>
  ELSE <<"SYSTEM_MESSAGE">>

\* iteration v1, in sendSessionUpdate: the same template
Instructions_v1(customPrompt) ==
  IF customPrompt # None
  THEN <<"SYSTEM_MESSAGE", "\n\nSpecific task: ", customPrompt>>
  ELSE <<"SYSTEM_MESSAGE">>

createSystemMessage(customPrompt) ==
  CASE impl = "v3" -> createSystemMessage_v3(customPrompt)
    [] impl = "p1" -> createSystemMessage_p1(customPrompt)
    [] impl = "v2" -> Instructions_v2(customPrompt)
    [] impl = "v1" -> Instructions_v1(customPrompt)

(* ---------------------------- telephony side ---------------------------- *)
\* handleMessage case 'start'; v3 also maps the stream to customParameters.CallSid
BindCallSid(sid, cs) ==
  IF impl = "v3" /\ cs # None
  THEN [streamToCallSid EXCEPT ![sid] = cs]
  ELSE streamToCallSid

\* retry timers pending
RetryPending ==
  LET RECURSIVE Sum(_)
      Sum(n) == IF n = 0 THEN 0 ELSE retryTimers[n] + Sum(n - 1)
  IN Sum(RetryLimit)

\* the catch of initializeOpenAI(rc) when new WebSocket(...) has thrown:
\* logged; v2 schedules initializeOpenAI(rc + 1) if (retryCount < 3)
RetryAfterThrow(timers, rc) ==
  IF impl = "v2" /\ rc < RetryLimit
  THEN [timers EXCEPT ![rc + 1] = @ + 1]
  ELSE timers

\* initializeOpenAI(retryCount = rc): openAiWs = new WebSocket(...) and its
\* handlers; the constructor throws on a key that no header can carry, and
\* openAiWs then keeps what it held (`timers`: the retry timers before)
InitializeOpenAI(timers, rc) ==
  IF keyValid
  THEN /\ Len(socks) < MaxSocks
       /\ socks' = Append(socks, NewSock(rc))
       /\ openAiWs' = Len(socks) + 1
       /\ retryTimers' = timers
  ELSE /\ retryTimers' = RetryAfterThrow(timers, rc)
       /\ UNCHANGED <<socks, openAiWs>>

Start(sid, cs) ==
  /\ TwLive
  /\ (~keyValid /\ impl = "v2") => Len(socks) + RetryPending < MaxSocks
  /\ started' = TRUE
  /\ streamSid' = sid
  /\ streamToCallSid' = BindCallSid(sid, cs)
  /\ InitializeOpenAI(retryTimers, 0)
  /\ startCallSid' = cs
  /\ Out([type |-> "start", streamSid |-> sid, callSid |-> cs], <<>>, <<>>)
  /\ UNCHANGED <<impl, connSocket, running, keyValid, twCloses, peer, activeCallPrompts, issued,
                 pendingCalls, tw, textVars, respVars, nextResp, timersPending, timersFired,
                 interrupted, heardVars, claimed, userSpeaking>>

\* a media case that sends without looking at readyState
MediaOutUnguarded(payload) ==
  <<AiMsg([type |-> "input_audio_buffer.append", audio |-> payload])>>

\* handleMessage case 'media'
MediaOut(payload) ==
  IF AiOpen
  THEN <<AiMsg([type |-> "input_audio_buffer.append", audio |-> payload])>>
  ELSE <<>>

Media(payload) ==
  /\ TwLive
  /\ Out([type |-> "media", payload |-> payload], <<>>, MediaOut(payload))
  /\ UNCHANGED <<impl, connSocket, running, keyValid, twCloses, peer, regVars, tw, started, streamSid, socks,
                 openAiWs, textVars, respVars, nextResp, timerVars, ghostVars>>

\* a telephony message the handler cannot use: text that JSON.parse rejects,
\* a start message without its start object, a media message without its
\* media object
MalformedKinds == {"unparseable", "start-without-start", "media-without-media"}

\* handleMessage on such a message: JSON.parse, data.start.streamSid or
\* data.media.payload throws inside the try and the catch logs it (a media
\* message is not even read while the adapter is not open)
TwilioMalformed(kind) ==
  /\ TwLive
  /\ Out([type |-> "malformed", from |-> "twilio", kind |-> kind], <<>>, <<>>)
  /\ UNCHANGED <<impl, connSocket, running, keyValid, twCloses, peer, regVars, tw, started, streamSid, socks,
                 openAiWs, textVars, respVars, nextResp, timerVars, ghostVars>>

\* a start message whose start object has no streamSid: nothing throws,
\* case 'start' runs with data.start.streamSid undefined, and v3 maps the
\* key undefined to the CallSid when the message carries one
StartWithoutSid(cs) == Len(socks) < MaxConns /\ Start(None, cs)

\* a stop case that closes the telephony socket as well
StopClosingBoth ==
  /\ TwLive
  /\ socks' = CloseAiIfOpen(socks)
  /\ tw' = "closing"
  /\ Out([type |-> "stop"], <<>>, <<>>)
  /\ UNCHANGED <<impl, connSocket, running, keyValid, twCloses, peer, regVars, started, streamSid, openAiWs,
                 textVars, respVars, nextResp, timerVars, ghostVars>>

\* handleMessage case 'stop'
Stop ==
  /\ TwLive
  /\ socks' = CloseAiIfOpen(socks)
  /\ Out([type |-> "stop"], <<>>, <<>>)
  /\ UNCHANGED <<impl, connSocket, running, keyValid, twCloses, peer, regVars, tw, started, streamSid, openAiWs,
                 textVars, respVars, nextResp, timerVars, ghostVars>>

\* connection.on('close'), iterations p1, v2 and v1:
\*   if (streamSid) { activeCallPrompts.delete(streamSid); }
DeleteOnTwilioClose ==
  IF impl \in {"p1", "v2", "v1"} /\ streamSid # None
  THEN [activeCallPrompts EXCEPT ![streamSid] = None]
  ELSE activeCallPrompts

\* connection.on('close'): the telephony socket has closed
TwilioClose ==
  /\ TwLive
  /\ tw' = "closed"
  /\ socks' = CloseAiIfOpen(socks)
  /\ activeCallPrompts' = DeleteOnTwilioClose
  /\ Out([type |-> "twilio-close"], <<>>, <<>>)
  /\ UNCHANGED <<impl, connSocket, running, keyValid, twCloses, peer, streamToCallSid, issued,
                 pendingCalls, started, streamSid, openAiWs, textVars,
                 respVars, nextResp, timerVars, ghostVars>>

(* ----------------------------- adapter side ----------------------------- *)
\* openAiWs.on('open'): the session.update of this connection
SessionUpdate ==
  [type |-> "session.update", instructions |-> createSystemMessage(LookupPrompt)]

\* an open handler that configures the first connection of a session only
ConfiguredFirstOnly(ss) ==
  IF openAiWs = 1 /\ ss[openAiWs].st = "open"
  THEN [ss EXCEPT ![openAiWs].cfg = @ + 1]
  ELSE ss

\* socket k reports open; its handler sends on the socket the variable
\* openAiWs holds, which receives the message if it is open
Configured(ss) ==
  IF ss[openAiWs].st = "open"
  THEN [ss EXCEPT ![openAiWs].cfg = @ + 1]
  ELSE ss

\* WebSocket.prototype.send throws on a socket that is still CONNECTING;
\* only the sendSessionUpdate of v1 wraps the call in a try
SendThrows(ss, target) == impl # "v1" /\ ss[target].st = "connecting"

\* sockets of a process that has exited
AllClosed(ss) == [i \in DOMAIN ss |-> [ss[i] EXCEPT !.st = "closed"]]

\* an exception thrown out of an event listener is uncaught and the process
\* exits: its sockets are closed under it; both maps, the pending routes
\* and timers and the let variables of every session are gone with it
ProcessExit ==
  /\ running' = FALSE
  /\ tw' = "closed"
  /\ openAiWs' = 0
  /\ streamSid' = None
  /\ activeCallPrompts' = [key \in DOMAIN activeCallPrompts |-> None]
  /\ streamToCallSid' = [key \in DOMAIN streamToCallSid |-> None]
  /\ pendingCalls' = {}
  /\ conversation' = <<>>
  /\ completeMessage' = <<>>
  /\ currentResponseId' = None
  /\ currentMessageId' = None
  /\ isSpeaking' = FALSE
  /\ timersPending' = 0
  /\ retryTimers' = [rc \in 1..RetryLimit |-> 0]

\* the session of the other call after the exit
ExitedPeer ==
  [streamSid |-> None, tw |-> "closed", socks |-> AllClosed(peer.socks),
   openAiWs |-> 0, timers |-> 0,
   retryTimers |-> [rc \in 1..RetryLimit |-> 0]]

OpenAiOpen(k) ==
  /\ k \in 1..Len(socks)
  /\ socks[k].st = "connecting"
  /\ LET opened == [socks EXCEPT ![k].st = "open", ![k].ready = TRUE]
     IN /\ Out([type |-> "open", k |-> k, key |-> LookupKey,
                prompt |-> LookupPrompt],
               <<>>,
               <<[to |-> openAiWs,
                  rs |-> opened[openAiWs].st,
                  msg |-> SessionUpdate]>>)
        /\ IF SendThrows(opened, openAiWs)
           THEN /\ ProcessExit
                /\ socks' = AllClosed(opened)
                /\ peer' = ExitedPeer
           ELSE /\ socks' = Configured(opened)
                /\ UNCHANGED <<running, peer, regVars, tw, streamSid, openAiWs,
                               textVars, respVars, timersPending, retryTimers>>
  /\ claimed' = IF LookupPrompt # None THEN claimed \cup {LookupKey}
                ELSE claimed
  /\ UNCHANGED <<impl, connSocket, keyValid, twCloses, issued, started, nextResp,
                 timersFired,
                 interrupted, startCallSid, heardVars, userSpeaking>>

\* openAiWs.on('message') on text that JSON.parse rejects: caught and logged
OpenAiMalformed(k) ==
  /\ SockLive(k)
  /\ Out([type |-> "malformed", from |-> "openai", kind |-> "unparseable"],
         <<>>, <<>>)
  /\ UNCHANGED <<impl, connSocket, running, keyValid, twCloses, peer, regVars, tw, started, streamSid, socks,
                 openAiWs, textVars, respVars, nextResp, timerVars, ghostVars>>

\* case 'response.created': currentResponseId = response.response.id
ResponseCreated(k) ==
  /\ SockLive(k)
  /\ socks[k].resp = 0
  /\ nextResp <= MaxResp
  /\ socks' = [socks EXCEPT ![k].resp = nextResp]
  /\ nextResp' = nextResp + 1
  /\ currentResponseId' =
       IF impl \in Tracking THEN RespId(nextResp) ELSE currentResponseId
  /\ Out([type |-> "response.created", k |-> k, response_id |-> RespId(nextResp)],
         <<>>, <<>>)
  /\ UNCHANGED <<impl, connSocket, running, keyValid, twCloses, peer, regVars, tw, started, streamSid, openAiWs,
                 textVars, currentMessageId, isSpeaking, timerVars, ghostVars>>

\* case 'response.output_item.added': currentMessageId = response.item.id
OutputItemAdded(k) ==
  /\ SockLive(k)
  /\ socks[k].resp # 0
  /\ currentMessageId' =
       IF impl \in Tracking THEN ItemId(socks[k].resp) ELSE currentMessageId
  /\ Out([type |-> "response.output_item.added", k |-> k,
          item_id |-> ItemId(socks[k].resp)], <<>>, <<>>)
  /\ UNCHANGED <<impl, connSocket, running, keyValid, twCloses, peer, regVars, tw, started, streamSid, socks,
                 openAiWs, textVars, currentResponseId, isSpeaking, nextResp,
                 timerVars, ghostVars>>

TruncateMsg ==
  [type |-> "conversation.item.truncate", item_id |-> currentMessageId,
   content_index |-> 0]

\* a cancel that names the tracked message instead of the tracked response
CancelMsg_WrongId ==
  [type |-> "response.cancel", response_id |-> currentMessageId]

CancelMsg ==
  [type |-> "response.cancel", response_id |-> currentResponseId]

\* case 'input_audio_buffer.speech_started', iteration v3: cancel and truncate
\* both sit behind readyState === OPEN && currentResponseId
SpeechStartedOut_v3 ==
  IF AiOpen /\ currentResponseId # None
  THEN <<AiMsg(CancelMsg)>>
       \o (IF currentMessageId # None THEN <<AiMsg(TruncateMsg)>> ELSE <<>>)
  ELSE <<>>

\* iteration p1: behind readyState === OPEN, cancel if currentResponseId,
\* truncate if currentMessageId
SpeechStartedOut_p1 ==
  IF AiOpen
  THEN (IF currentResponseId # None THEN <<AiMsg(CancelMsg)>> ELSE <<>>)
       \o (IF currentMessageId # None THEN <<AiMsg(TruncateMsg)>> ELSE <<>>)
  ELSE <<>>

\* iteration v2: behind readyState === OPEN, a cancel that names no response
SpeechStartedOut_v2 ==
  IF AiOpen THEN <<AiMsg([type |-> "response.cancel"])>> ELSE <<>>

\* iteration v1: the same
SpeechStartedOut_v1 ==
  IF AiOpen THEN <<AiMsg([type |-> "response.cancel"])>> ELSE <<>>

SpeechStartedOut ==
  CASE impl = "v3" -> SpeechStartedOut_v3
    [] impl = "p1" -> SpeechStartedOut_p1
    [] impl = "v2" -> SpeechStartedOut_v2
    [] impl = "v1" -> SpeechStartedOut_v1

SpeechStarted(k) ==
  /\ SockLive(k)
  /\ isSpeaking' = IF impl = "v3" THEN TRUE ELSE isSpeaking
  /\ evt' = [type |-> "input_audio_buffer.speech_started", k |-> k,
             active |-> socks[k].resp]
  /\ twSent' = <<>>
  /\ aiSent' = SpeechStartedOut
  /\ needClear' = IF socks[k].resp # 0 THEN TRUE ELSE needClear
  /\ interrupted' = IF socks[k].resp # 0
                    THEN interrupted \cup {socks[k].resp} ELSE interrupted
  /\ userSpeaking' = TRUE
  /\ UNCHANGED <<impl, connSocket, running, keyValid, twCloses, peer, regVars, tw, started, streamSid, socks,
                 openAiWs, textVars, currentResponseId, currentMessageId,
                 nextResp, timerVars, startCallSid, heardVars, claimed>>

\* a speech_stopped case that also forgets the tracked identifiers
SpeechStoppedForgetting(k) ==
  /\ SockLive(k)
  /\ isSpeaking' = FALSE
  /\ currentResponseId' = None
  /\ currentMessageId' = None
  /\ userSpeaking' = FALSE
  /\ Out([type |-> "input_audio_buffer.speech_stopped", k |-> k], <<>>, <<>>)
  /\ UNCHANGED <<impl, connSocket, running, keyValid, twCloses, peer, regVars, tw, started, streamSid, socks,
                 openAiWs, textVars, nextResp, timerVars, interrupted,
                 startCallSid, heardVars, claimed>>

\* case 'input_audio_buffer.speech_stopped' (v3): isSpeaking = false
SpeechStopped(k) ==
  /\ SockLive(k)
  /\ isSpeaking' = IF impl = "v3" THEN FALSE ELSE isSpeaking
  /\ userSpeaking' = FALSE
  /\ Out([type |-> "input_audio_buffer.speech_stopped", k |-> k], <<>>, <<>>)
  /\ UNCHANGED <<impl, connSocket, running, keyValid, twCloses, peer, regVars, tw, started, streamSid, socks,
                 openAiWs, textVars, currentResponseId, currentMessageId,
                 nextResp, timerVars, interrupted, startCallSid, heardVars,
                 claimed>>

\* a delta case that stops forwarding once the end-of-call timer is scheduled
ForwardAudio_UntilMarker ==
  streamSid # None /\ ~isSpeaking /\ timersPending = 0

\* case 'response.audio.delta', v3: response.delta && streamSid && !isSpeaking
ForwardAudio_v3 == streamSid # None /\ ~isSpeaking

\* p1: response.delta && streamSid
ForwardAudio_p1 == streamSid # None

\* v2: response.delta && streamSid
ForwardAudio_v2 == streamSid # None

\* v1: response.delta && streamSid
ForwardAudio_v1 == streamSid # None

ForwardAudio ==
  CASE impl = "v3" -> ForwardAudio_v3
    [] impl = "p1" -> ForwardAudio_p1
    [] impl = "v2" -> ForwardAudio_v2
    [] impl = "v1" -> ForwardAudio_v1

AudioDeltaOut(payload) ==
  IF ForwardAudio THEN <<MediaFrame(payload)>> ELSE <<>>

\* the service streams audio of the response it is generating on socket k
AudioDelta(k, payload) ==
  /\ SockLive(k)
  /\ socks[k].resp # 0
  /\ Out([type |-> "response.audio.delta", k |-> k, delta |-> payload,
          resp |-> socks[k].resp],
         AudioDeltaOut(payload), <<>>)
  /\ UNCHANGED <<impl, connSocket, running, keyValid, twCloses, peer, regVars, tw, started, streamSid, socks,
                 openAiWs, textVars, respVars, nextResp, timerVars, ghostVars>>

\* case 'response.done' (p1): both identifiers are reset
ResponseDone(k) ==
  /\ SockLive(k)
  /\ socks[k].resp # 0
  /\ socks' = [socks EXCEPT ![k].resp = 0]
  /\ currentResponseId' = IF impl = "p1" THEN None ELSE currentResponseId
  /\ currentMessageId' = IF impl = "p1" THEN None ELSE currentMessageId
  /\ Out([type |-> "response.done", k |-> k, resp |-> socks[k].resp], <<>>, <<>>)
  /\ UNCHANGED <<impl, connSocket, running, keyValid, twCloses, peer, regVars, tw, started, streamSid, openAiWs,
                 textVars, isSpeaking, nextResp, timerVars, ghostVars>>

(* ------------------------- transcripts and the log ---------------------- *)
Entry(role, text) == [role |-> role, content |-> text]

\* an entry put in front of the log instead of behind it
Unshift(log, role, message) == <<Entry(role, Trim(message))>> \o log

\* conversation.push({ role, content: completeMessage.trim() }) of v3
Push_v3(log, role, message) == Append(log, Entry(role, Trim(message)))

\* logConversation(role, message) of p1: only a non-blank message that ends
\* in terminal punctuation is pushed, trimmed
logConversation(log, role, message) ==
  IF Trim(message) # <<>> /\ EndsWithPunct(message)
  THEN Append(log, Entry(role, Trim(message)))
  ELSE log

CommitAssistant(log, message) ==
  IF impl = "v3" THEN Push_v3(log, "assistant", message)
  ELSE logConversation(log, "assistant", message)

\* iterations v2 and v1: when assistantMessageBuffer includes the marker,
\*   cleanMessage = assistantMessageBuffer.replace('[END_CALL]', '').trim()
\* is pushed; the buffer is never emptied
CommitClean_v2(log, buf) ==
  IF Includes(buf, END_CALL)
  THEN Append(log, Entry("assistant", Trim(ReplaceFirst(buf, END_CALL))))
  ELSE log

\* a buffer that is kept after its sentence was committed
BufferKept(buf) == buf

\* case 'response.audio_transcript.delta': the buffer after the sentence check
BufferAfter(buf) ==
  IF impl \in Tracking /\ SentenceBoundary(buf) THEN <<>> ELSE buf

\* the log after the sentence check (v3, p1) or the marker check (v2, v1)
LogAfter(log, buf) ==
  IF impl \notin Tracking THEN CommitClean_v2(log, buf)
  ELSE IF SentenceBoundary(buf) THEN CommitAssistant(log, buf) ELSE log

\* completeMessage.includes('[END_CALL]'), evaluated after the sentence check
EndCallDetected(buf) == Includes(BufferAfter(buf), END_CALL)

TranscriptDelta(k, delta) ==
  /\ SockLive(k)
  /\ delta # <<>>
  /\ LET buf == completeMessage \o delta
     IN /\ Len(LogAfter(conversation, buf)) <= MaxLog
        /\ EndCallDetected(buf) => timersPending + timersFired < MaxTimers
        /\ conversation' = LogAfter(conversation, buf)
        /\ completeMessage' = BufferAfter(buf)
        /\ timersPending' =
             IF EndCallDetected(buf) THEN timersPending + 1 ELSE timersPending
        /\ markerHeard' = (markerHeard \/ Includes(heardTail \o delta, END_CALL))
        /\ heardTail' = LastChars(heardTail \o delta, Len(END_CALL) - 1)
        /\ Out([type |-> "response.audio_transcript.delta", k |-> k,
                delta |-> delta, detected |-> EndCallDetected(buf)],
               <<>>, <<>>)
  /\ UNCHANGED <<impl, connSocket, running, keyValid, twCloses, peer, regVars, tw, started, streamSid, socks,
                 openAiWs, respVars, nextResp, timersFired, retryTimers,
                 interrupted, startCallSid, claimed, userSpeaking>>

\* case 'conversation.item.input_audio_transcription.completed', v3:
\* the trimmed transcript is pushed when it is not empty
CommitUser_v3(log, transcript) ==
  IF transcript # <<>> /\ Trim(transcript) # <<>>
  THEN Append(log, Entry("user", Trim(transcript)))
  ELSE log

\* p1: logConversation('user', response.transcript.trim())
CommitUser_p1(log, transcript) ==
  IF transcript # <<>> THEN logConversation(log, "user", Trim(transcript))
  ELSE log

\* v2: conversation.push({ role: 'user', content: response.transcript.trim() })
CommitUser_v2(log, transcript) ==
  IF transcript # <<>> THEN Append(log, Entry("user", Trim(transcript)))
  ELSE log

\* v1: conversation.push({ role: 'user', content: response.transcript.trim() })
CommitUser_v1(log, transcript) ==
  IF transcript # <<>> THEN Append(log, Entry("user", Trim(transcript)))
  ELSE log

CommitUser(log, transcript) ==
  CASE impl = "v3" -> CommitUser_v3(log, transcript)
    [] impl = "p1" -> CommitUser_p1(log, transcript)
    [] impl = "v2" -> CommitUser_v2(log, transcript)
    [] impl = "v1" -> CommitUser_v1(log, transcript)

TranscriptionCompleted(k, transcript) ==
  /\ SockLive(k)
  /\ Len(CommitUser(conversation, transcript)) <= MaxLog
  /\ conversation' = CommitUser(conversation, transcript)
  /\ Out([type |-> "conversation.item.input_audio_transcription.completed",
          k |-> k, transcript |-> transcript], <<>>, <<>>)
  /\ UNCHANGED <<impl, connSocket, running, keyValid, twCloses, peer, regVars, tw, started, streamSid, socks,
                 openAiWs, completeMessage, respVars, nextResp, timerVars,
                 ghostVars>>

(* ------------------------ end-of-call timer, closes --------------------- *)
\* whether the timer callback calls connection.socket.close():
\*   v3, p1, v2: if (connection.socket)
\*   v1:         if (connection.socket.readyState === WebSocket.OPEN)
TwilioCloseCalled ==
  IF impl = "v1" THEN tw = "open" ELSE connSocket

\* the telephony socket after the callback: close() starts the closing
\* handshake of an open socket and leaves any other as it is
CloseTwilioByTimer ==
  IF TwilioCloseCalled /\ tw = "open" THEN "closing" ELSE tw

\* the setTimeout callback of the END_CALL branch
EndCallTimer ==
  /\ timersPending > 0
  /\ timersPending' = timersPending - 1
  /\ timersFired' = timersFired + 1
  /\ tw' = CloseTwilioByTimer
  /\ twCloses' = IF TwilioCloseCalled THEN twCloses + 1 ELSE twCloses
  /\ socks' = CloseAiIfOpen(socks)
  /\ Out([type |-> "end-call-timer"], <<>>, <<>>)
  /\ UNCHANGED <<impl, connSocket, running, keyValid, peer, regVars, started,
                 streamSid, openAiWs,
                 textVars, respVars, nextResp, retryTimers, ghostVars>>

\* if (retryCount < 3), in the handlers of the socket k of iteration v2
RetryAllowed(k) == impl = "v2" /\ socks[k].rc < RetryLimit

\* setTimeout(() => initializeOpenAI(retryCount + 1), 1000) when `retry`
ScheduleRetry(k, retry) ==
  /\ retry => Len(socks) + RetryPending < MaxSocks
  /\ retryTimers' =
       IF retry THEN [retryTimers EXCEPT ![socks[k].rc + 1] = @ + 1]
       ELSE retryTimers

\* the callback of a retry timer: initializeOpenAI(rc)
RetryTimer(rc) ==
  /\ retryTimers[rc] > 0
  /\ InitializeOpenAI([retryTimers EXCEPT ![rc] = @ - 1], rc)
  /\ Out([type |-> "retry-timer", rc |-> rc], <<>>, <<>>)
  /\ UNCHANGED <<impl, connSocket, running, keyValid, twCloses, peer, regVars, tw, started, streamSid, textVars,
                 respVars, nextResp, timersPending, timersFired, ghostVars>>

\* case 'error' of the message handler: logged; v2 schedules a retry
OpenAiErrorMessage(k) ==
  /\ SockLive(k)
  /\ ScheduleRetry(k, RetryAllowed(k))
  /\ Out([type |-> "error-message", k |-> k], <<>>, <<>>)
  /\ UNCHANGED <<impl, connSocket, running, keyValid, twCloses, peer, regVars, tw, started, streamSid, socks,
                 openAiWs, textVars, respVars, nextResp, timersPending,
                 timersFired, ghostVars>>

\* openAiWs.on('error'): logged, v2 schedules a retry; the listener has no
\* condition, and a socket fails (once) while it is connecting, open or
\* already closing by a local close(); its close event follows
OpenAiError(k) ==
  /\ k \in 1..Len(socks)
  /\ socks[k].st \in {"connecting", "open", "closing"}
  /\ ~socks[k].err
  /\ socks' = [socks EXCEPT ![k].st = "closing", ![k].err = TRUE]
  /\ ScheduleRetry(k, RetryAllowed(k))
  /\ Out([type |-> "error", k |-> k], <<>>, <<>>)
  /\ UNCHANGED <<impl, connSocket, running, keyValid, twCloses, peer, regVars, tw, started, streamSid, openAiWs,
                 textVars, respVars, nextResp, timersPending, timersFired,
                 ghostVars>>

\* openAiWs.on('close') of v3: the maps are cleaned up
\*   callSid = streamToCallSid.get(streamSid);
\*   if (callSid) { activeCallPrompts.delete(callSid); streamToCallSid.delete(streamSid) }
PromptsAfterAiClose ==
  LET callSid == MapGet(streamToCallSid, streamSid)
  IN IF impl = "v3" /\ callSid # None
     THEN [activeCallPrompts EXCEPT ![callSid] = None]
     ELSE activeCallPrompts

StreamsAfterAiClose ==
  LET callSid == MapGet(streamToCallSid, streamSid)
  IN IF impl = "v3" /\ callSid # None
     THEN [streamToCallSid EXCEPT ![streamSid] = None]
     ELSE streamToCallSid

\* openAiWs.on('close', (code, reason)); v2: if (code !== 1000 && retryCount < 3)
\* a retry is scheduled
OpenAiClose(k, code) ==
  /\ k \in 1..Len(socks)
  /\ socks[k].st \in {"open", "closing"}
  /\ socks[k].err => code = 1006
  /\ socks' = [socks EXCEPT ![k].st = "closed", ![k].resp = 0]
  /\ activeCallPrompts' = PromptsAfterAiClose
  /\ streamToCallSid' = StreamsAfterAiClose
  /\ ScheduleRetry(k, RetryAllowed(k) /\ code # 1000)
  /\ Out([type |-> "close", k |-> k], <<>>, <<>>)
  /\ UNCHANGED <<impl, connSocket, running, keyValid, twCloses, peer, issued, pendingCalls, tw,
                 started, streamSid, openAiWs, textVars, respVars, nextResp,
                 timersPending, timersFired, ghostVars>>

(* ------------------------- the session of another call ----------------- *)
\* Every connection to /media-stream runs wsHandler again: its let variables
\* are the connection's own, the two maps and the process are shared.  The
\* handlers below are those of a second connection, as far as they touch
\* the maps, its sockets and the process; sid stands for the streamSid of
\* the closure they run in.  The start and the open handler report what they
\* bind and look up; the others report "peer-event".

\* the key the open handler reads the registry under
LookupKeyOf(sid) ==
  IF impl = "v3" THEN MapGet(streamToCallSid, sid) ELSE sid

\* the prompt the open handler finds: v3 callSid ? get(callSid) : null,
\* p1 and v2 get(streamSid), v1 streamSid ? get(streamSid) : null
LookupPromptOf(sid) ==
  IF LookupKeyOf(sid) # None
  THEN MapGet(activeCallPrompts, LookupKeyOf(sid))
  ELSE None

\* connection.on('close') of p1, v2, v1: if (streamSid) delete(streamSid)
DeleteOnTwilioCloseOf(sid) ==
  IF impl \in {"p1", "v2", "v1"} /\ sid # None
  THEN [activeCallPrompts EXCEPT ![sid] = None]
  ELSE activeCallPrompts

\* openAiWs.on('close') of v3: the entry of the mapped call is deleted
PromptsAfterAiCloseOf(sid) ==
  LET callSid == MapGet(streamToCallSid, sid)
  IN IF impl = "v3" /\ callSid # None
     THEN [activeCallPrompts EXCEPT ![callSid] = None]
     ELSE activeCallPrompts

StreamsAfterAiCloseOf(sid) ==
  LET callSid == MapGet(streamToCallSid, sid)
  IN IF impl = "v3" /\ callSid # None
     THEN [streamToCallSid EXCEPT ![sid] = None]
     ELSE streamToCallSid

\* new WebSocket(...) in the closure of the other connection
NewPeerSock(rc) == [st |-> "connecting", rc |-> rc, err |-> FALSE]

\* openAiWs.close() behind the readyState guard, on the other connection
ClosePeerAiIfOpen(ss) ==
  IF peer.openAiWs # 0 /\ ss[peer.openAiWs].st = "open"
  THEN [ss EXCEPT ![peer.openAiWs].st = "closing"]
  ELSE ss

\* messages reach the handlers of the other connection until its close event
PeerTwLive == peer.tw \in {"open", "closing"}

PeerSockLive(k) ==
  /\ k \in 1..Len(peer.socks)
  /\ peer.socks[k].st \in {"open", "closing"}
  /\ ~peer.socks[k].err

\* retry timers pending on the other connection
PeerRetryPending ==
  LET RECURSIVE Sum(_)
      Sum(n) == IF n = 0 THEN 0 ELSE peer.retryTimers[n] + Sum(n - 1)
  IN Sum(RetryLimit)

\* if (retryCount < 3), in the handlers of socket k of the other connection
PeerRetryAllowed(k) == impl = "v2" /\ peer.socks[k].rc < RetryLimit

\* sockets of the other connection that have failed and whose close event,
\* which schedules a retry as well, is still to come
PeerCloseOwed ==
  Cardinality({k \in 1..Len(peer.socks) :
                 /\ peer.socks[k].err
                 /\ peer.socks[k].st = "closing"
                 /\ PeerRetryAllowed(k)})

\* the sockets of the other connection, those its pending timers and the
\* close events owed will create included, leave room for n more: start and
\* error messages, failures and abnormal close codes arrive only while the
\* sockets they lead to fit the bound; no handler is held back otherwise
PeerRoom(n) ==
  Len(peer.socks) + PeerRetryPending + PeerCloseOwed + n <= MaxPeerSocks

\* setTimeout(() => initializeOpenAI(retryCount + 1), 1000) when `retry`, in
\* a handler of socket k of the other connection
PeerScheduled(k, retry) ==
  IF retry /\ PeerRetryAllowed(k)
  THEN [peer.retryTimers EXCEPT ![peer.socks[k].rc + 1] = @ + 1]
  ELSE peer.retryTimers

\* initializeOpenAI(retryCount = rc) in the closure of the other connection,
\* whose state before the call is p
PeerInitialized(p, rc) ==
  IF keyValid
  THEN [p EXCEPT !.socks = Append(@, NewPeerSock(rc)),
                 !.openAiWs = Len(p.socks) + 1]
  ELSE [p EXCEPT !.retryTimers = RetryAfterThrow(@, rc)]

\* handleMessage case 'start' on the other connection
PeerStart(sid, cs) ==
  /\ PeerTwLive
  /\ PeerRoom(1)
  /\ peer' = PeerInitialized([peer EXCEPT !.streamSid = sid], 0)
  /\ streamToCallSid' = BindCallSid(sid, cs)
  /\ Out([type |-> "peer-start", streamSid |-> sid, callSid |-> cs],
         <<>>, <<>>)
  /\ UNCHANGED <<impl, connSocket, running, keyValid, twCloses, activeCallPrompts, issued,
                 pendingCalls, tw, started, streamSid, socks, openAiWs,
                 textVars, respVars, nextResp, timerVars, interrupted,
                 startCallSid, heardVars, claimed, userSpeaking>>

\* handleMessage case 'stop' on the other connection
PeerStop ==
  /\ PeerTwLive
  /\ peer' = [peer EXCEPT !.socks = ClosePeerAiIfOpen(peer.socks)]
  /\ Out([type |-> "peer-event"], <<>>, <<>>)
  /\ UNCHANGED <<impl, connSocket, running, keyValid, twCloses, regVars, tw, started,
                 streamSid, socks, openAiWs, textVars, respVars, nextResp,
                 timerVars, interrupted, startCallSid, heardVars, claimed,
                 userSpeaking>>

\* openAiWs.on('open') of socket k of the other connection: the lookup and
\* the session.update built from it, sent on the socket its openAiWs holds
PeerOpen(k) ==
  /\ k \in 1..Len(peer.socks)
  /\ peer.socks[k].st = "connecting"
  /\ LET opened == [peer.socks EXCEPT ![k].st = "open"]
     IN IF impl # "v1" /\ opened[peer.openAiWs].st = "connecting"
        THEN /\ ProcessExit
             /\ socks' = AllClosed(socks)
             /\ peer' = [ExitedPeer EXCEPT !.socks = AllClosed(opened)]
        ELSE /\ peer' = [peer EXCEPT !.socks = opened]
             /\ UNCHANGED <<running, regVars, tw, streamSid, socks, openAiWs,
                            textVars, respVars, timersPending, retryTimers>>
  /\ Out([type |-> "peer-open", key |-> LookupKeyOf(peer.streamSid),
          prompt |-> LookupPromptOf(peer.streamSid)],
         <<>>, <<>>)
  /\ UNCHANGED <<impl, connSocket, keyValid, twCloses, issued, started, nextResp,
                 timersFired,
                 interrupted, startCallSid, heardVars, claimed, userSpeaking>>

\* connection.on('close') on the other connection
PeerTwilioClose ==
  /\ PeerTwLive
  /\ peer' = [peer EXCEPT !.tw = "closed",
                          !.socks = ClosePeerAiIfOpen(peer.socks)]
  /\ activeCallPrompts' = DeleteOnTwilioCloseOf(peer.streamSid)
  /\ Out([type |-> "peer-event"], <<>>, <<>>)
  /\ UNCHANGED <<impl, connSocket, running, keyValid, twCloses, streamToCallSid, issued,
                 pendingCalls, tw, started, streamSid, socks, openAiWs,
                 textVars, respVars, nextResp, timerVars, interrupted,
                 startCallSid, heardVars, claimed, userSpeaking>>

\* case 'response.audio_transcript.delta' on socket k of the other
\* connection, with a delta that leaves '[END_CALL]' in its buffer: the
\* end-of-call timer is scheduled
PeerEndCallDelta(k) ==
  /\ PeerSockLive(k)
  /\ peer.timers < MaxPeerTimers
  /\ peer' = [peer EXCEPT !.timers = @ + 1]
  /\ Out([type |-> "peer-event"], <<>>, <<>>)
  /\ UNCHANGED <<impl, connSocket, running, keyValid, twCloses, regVars, tw, started,
                 streamSid, socks, openAiWs, textVars, respVars, nextResp,
                 timerVars, interrupted, startCallSid, heardVars, claimed,
                 userSpeaking>>

\* whether the timer callback of the other connection calls
\* connection.socket.close(), and the telephony socket after it
PeerTwilioCloseCalled ==
  IF impl = "v1" THEN peer.tw = "open" ELSE connSocket

PeerCloseTwilioByTimer ==
  IF PeerTwilioCloseCalled /\ peer.tw = "open" THEN "closing" ELSE peer.tw

\* the setTimeout callback of the END_CALL branch on the other connection
PeerEndCallTimer ==
  /\ peer.timers > 0
  /\ peer' = [peer EXCEPT !.timers = @ - 1,
                          !.tw = PeerCloseTwilioByTimer,
                          !.socks = ClosePeerAiIfOpen(peer.socks)]
  /\ Out([type |-> "peer-event"], <<>>, <<>>)
  /\ UNCHANGED <<impl, connSocket, running, keyValid, twCloses, regVars, tw, started,
                 streamSid, socks, openAiWs, textVars, respVars, nextResp,
                 timerVars, interrupted, startCallSid, heardVars, claimed,
                 userSpeaking>>

\* case 'error' of the message handler of socket k of the other connection:
\* logged; v2 schedules a retry
PeerAiErrorMessage(k) ==
  /\ PeerSockLive(k)
  /\ PeerRetryAllowed(k) => PeerRoom(1)
  /\ peer' = [peer EXCEPT !.retryTimers = PeerScheduled(k, TRUE)]
  /\ Out([type |-> "peer-event"], <<>>, <<>>)
  /\ UNCHANGED <<impl, connSocket, running, keyValid, twCloses, regVars, tw, started,
                 streamSid, socks, openAiWs, textVars, respVars, nextResp,
                 timerVars, interrupted, startCallSid, heardVars, claimed,
                 userSpeaking>>

\* openAiWs.on('error') on the other connection: the socket fails (one that
\* never opened or is already closing included) and its close event follows;
\* v2 schedules a retry here and another in the close handler
PeerAiError(k) ==
  /\ k \in 1..Len(peer.socks)
  /\ peer.socks[k].st \in {"connecting", "open", "closing"}
  /\ ~peer.socks[k].err
  /\ PeerRetryAllowed(k) => PeerRoom(2)
  /\ peer' = [peer EXCEPT !.socks[k].st = "closing", !.socks[k].err = TRUE,
                          !.retryTimers = PeerScheduled(k, TRUE)]
  /\ Out([type |-> "peer-event"], <<>>, <<>>)
  /\ UNCHANGED <<impl, connSocket, running, keyValid, twCloses, regVars, tw, started,
                 streamSid, socks, openAiWs, textVars, respVars, nextResp,
                 timerVars, interrupted, startCallSid, heardVars, claimed,
                 userSpeaking>>

\* openAiWs.on('close', (code, reason)) on the other connection: v3 cleans
\* the maps up, v2 schedules a retry if (code !== 1000 && retryCount < 3);
\* the close of a socket that failed is always handled
PeerAiClose(k, code) ==
  /\ k \in 1..Len(peer.socks)
  /\ peer.socks[k].st \in {"open", "closing"}
  /\ peer.socks[k].err => code = 1006
  /\ (~peer.socks[k].err /\ code # 1000 /\ PeerRetryAllowed(k)) => PeerRoom(1)
  /\ peer' = [peer EXCEPT !.socks[k].st = "closed",
                          !.retryTimers = PeerScheduled(k, code # 1000)]
  /\ activeCallPrompts' = PromptsAfterAiCloseOf(peer.streamSid)
  /\ streamToCallSid' = StreamsAfterAiCloseOf(peer.streamSid)
  /\ Out([type |-> "peer-event"], <<>>, <<>>)
  /\ UNCHANGED <<impl, connSocket, running, keyValid, twCloses, issued, pendingCalls, tw,
                 started, streamSid, socks, openAiWs, textVars, respVars,
                 nextResp, timerVars, interrupted, startCallSid, heardVars,
                 claimed, userSpeaking>>

\* the callback of a retry timer of the other connection: initializeOpenAI(rc)
PeerRetryTimer(rc) ==
  /\ peer.retryTimers[rc] > 0
  /\ peer' = PeerInitialized([peer EXCEPT !.retryTimers[rc] = @ - 1], rc)
  /\ Out([type |-> "peer-event"], <<>>, <<>>)
  /\ UNCHANGED <<impl, connSocket, running, keyValid, twCloses, regVars, tw, started,
                 streamSid, socks, openAiWs, textVars, respVars, nextResp,
                 timerVars, interrupted, startCallSid, heardVars, claimed,
                 userSpeaking>>

(* ---------------------------- specification ----------------------------- *)
\* the start message of a stream, its customParameters.CallSid drawn from CS
Starts(CS) == \E sid \in StreamSids, cs \in CS : ~started /\ Start(sid, cs)

\* a further start message on a connection that has already had one
Restarts(CS) ==
  \E sid \in StreamSids, cs \in CS :
    started /\ Len(socks) < MaxConns /\ Start(sid, cs)

\* the sockets opening and closing
Lifecycle ==
  \/ TwilioClose
  \/ \E k \in 1..MaxSocks : OpenAiOpen(k)
  \/ \E k \in 1..MaxSocks, code \in CloseCodes : OpenAiClose(k, code)

\* the stop message and a failing adapter socket
Failures ==
  \/ Stop
  \/ \E k \in 1..MaxSocks : OpenAiError(k)

\* error messages of the service and the retries of the adapter connection
RetryEvents ==
  \/ \E k \in 1..MaxSocks : OpenAiErrorMessage(k)
  \/ \E rc \in 1..RetryLimit : RetryTimer(rc)

\* audio in both directions, responses and speech activity
AudioEvents ==
  \/ \E payload \in Payloads : Media(payload)
  \/ \E k \in 1..MaxSocks : ResponseCreated(k)
  \/ \E k \in 1..MaxSocks : OutputItemAdded(k)
  \/ \E k \in 1..MaxSocks : SpeechStarted(k)
  \/ \E k \in 1..MaxSocks : SpeechStopped(k)
  \/ \E k \in 1..MaxSocks, payload \in Payloads : AudioDelta(k, payload)
  \/ \E k \in 1..MaxSocks : ResponseDone(k)

\* a transcript delta that the pending buffer has room for
BoundedDelta(k, delta) ==
  /\ Len(completeMessage) + Len(delta) <= MaxBuf
  /\ TranscriptDelta(k, delta)

\* transcripts, the conversation log and the end-of-call timer
TextEvents ==
  \/ \E k \in 1..MaxSocks, delta \in Fragments : BoundedDelta(k, delta)
  \/ \E k \in 1..MaxSocks, t \in Transcripts : TranscriptionCompleted(k, t)
  \/ EndCallTimer

\* how many fragments of the scenario have arrived, read off the tail of the
\* transcript received so far
ScenarioPos ==
  CASE heardTail = <<>> -> 0
    [] heardTail = LastChars(FragThanks, Len(END_CALL) - 1) -> 1
    [] heardTail = LastChars(FragThanks \o FragGoodbye, Len(END_CALL) - 1) -> 2
    [] OTHER -> 3

\* the service streams the next fragment of the scenario
ScenarioDelta(k) ==
  /\ ScenarioPos < Len(Scenario)
  /\ TranscriptDelta(k, Scenario[ScenarioPos + 1])

\* the closing scenario and the end-of-call timer
ScenarioEvents ==
  \/ \E k \in 1..MaxSocks : ScenarioDelta(k)
  \/ EndCallTimer

\* call origination
RegistryEvents ==
  \/ \E sid \in CallSids, prompt \in Prompts : MakeCallCreate(sid, prompt)
  \/ \E call \in [sid : CallSids, prompt : Prompts] : MakeCallStore(call)

Next ==
  \/ Starts(CallSids \cup {None})
  \/ Restarts(CallSids \cup {None})
  \/ Lifecycle
  \/ Failures
  \/ AudioEvents
  \/ TextEvents
  \/ RegistryEvents
  \/ RetryEvents

Spec == Init /\ [][Next]_vars

\* (The full interleaving above is the reference; its state space is too
\* large to enumerate, and the properties are checked per event family.)
\* The handlers of the audio events read and write the response identifiers
\* and isSpeaking, those of the text events the buffer, the log and the timer,
\* the registry is read when the adapter opens; no family reads what another
\* writes, and each is interleaved with the life cycle on its own.
NextAudio ==
  \/ Starts(CallSids \cup {None})
  \/ Lifecycle
  \/ Failures
  \/ AudioEvents

\* the sessions of the iterations that track the response identifiers
InitTracking == Init /\ impl \in Tracking

SpecAudio == InitTracking /\ [][NextAudio]_vars

NextText ==
  \/ Starts({None})
  \/ Lifecycle
  \/ TextEvents

SpecText == InitTracking /\ [][NextText]_vars

NextRegistry ==
  \/ Starts(CallSids \cup {None})
  \/ Restarts(CallSids \cup {None})
  \/ Lifecycle
  \/ Failures
  \/ RegistryEvents

SpecRegistry == InitTracking /\ [][NextRegistry]_vars

NextScenario ==
  \/ Starts({None})
  \/ Lifecycle
  \/ Failures
  \/ ScenarioEvents

SpecScenario == InitTracking /\ [][NextScenario]_vars

\* the sessions of iteration v2, which retries its adapter connection
InitRetry == Init /\ impl = "v2"

\* the adapter side of a session on its own: connections that open, fail,
\* close, and the retries these schedule
NextRetry ==
  \/ Starts({None})
  \/ \E k \in 1..MaxSocks : OpenAiOpen(k)
  \/ \E k \in 1..MaxSocks, code \in CloseCodes : OpenAiClose(k, code)
  \/ \E k \in 1..MaxSocks : OpenAiError(k)
  \/ RetryEvents

SpecRetry == InitRetry /\ [][NextRetry]_vars

\* the start message of the stream of a call that POST /make-call created,
\* or of a call the registry does not know
IssuedStarts ==
  \E sid \in StreamSids, cs \in issued \cup {None} : ~started /\ Start(sid, cs)

\* the ways a session ends: either socket closing, the stop message, a
\* failing adapter, the retries of v2 and the end-of-call timer
TeardownEvents ==
  \/ \E k \in 1..MaxSocks : OpenAiErrorMessage(k)
  \/ \E rc \in 1..RetryLimit : Len(socks) < MaxConns /\ RetryTimer(rc)
  \/ \E k \in 1..MaxSocks : BoundedDelta(k, FragMarker)
  \/ EndCallTimer

NextTeardown ==
  \/ RegistryEvents
  \/ IssuedStarts
  \/ Lifecycle
  \/ Failures
  \/ TeardownEvents

SpecTeardown == Init /\ [][NextTeardown]_vars

\* every handler that calls close() on a socket: the stop case, both close
\* handlers and the timer callback, with a marker that is detected again by
\* the delta after it and a further start message that replaces the adapter
\* connection under them
CloseCallEvents ==
  \/ Stop
  \/ \E k \in 1..MaxSocks, delta \in {FragMarker, FragBye} :
       BoundedDelta(k, delta)
  \/ EndCallTimer

NextCloseCalls ==
  \/ Starts({None})
  \/ Restarts({None})
  \/ Lifecycle
  \/ CloseCallEvents

SpecCloseCalls == Init /\ [][NextCloseCalls]_vars

\* caller audio arriving while adapter connections come and go: a further
\* start message or a retry replaces the connection the session sends on
StartupEvents ==
  \/ \E payload \in Payloads : Media(payload)
  \/ \E k \in 1..MaxSocks : OpenAiErrorMessage(k)
  \/ \E rc \in 1..RetryLimit : Len(socks) < MaxConns /\ RetryTimer(rc)

NextStartup ==
  \/ Starts({None})
  \/ Restarts({None})
  \/ Lifecycle
  \/ Failures
  \/ StartupEvents

SpecStartup == Init /\ [][NextStartup]_vars

\* messages the handlers cannot use, among the well-formed traffic
MalformedEvents ==
  \/ \E kind \in MalformedKinds : TwilioMalformed(kind)
  \/ \E cs \in CallSids \cup {None} : StartWithoutSid(cs)
  \/ \E k \in 1..MaxSocks : OpenAiMalformed(k)

NextMalformed ==
  \/ Starts({None})
  \/ Lifecycle
  \/ AudioEvents
  \/ MalformedEvents

SpecMalformed == Init /\ [][NextMalformed]_vars

\* the end of a call: the marker arrives in the transcript while the audio
\* of the response is still streaming, then the timer fires
ClosingEvents ==
  \/ \E k \in 1..MaxSocks : ResponseCreated(k)
  \/ \E k \in 1..MaxSocks, payload \in Payloads : AudioDelta(k, payload)
  \/ \E k \in 1..MaxSocks : SpeechStarted(k)
  \/ \E k \in 1..MaxSocks : SpeechStopped(k)
  \/ \E k \in 1..MaxSocks : BoundedDelta(k, FragMarker)
  \/ EndCallTimer

NextClosing ==
  \/ Starts({None})
  \/ Lifecycle
  \/ ClosingEvents

SpecClosing == Init /\ [][NextClosing]_vars

\* the events of the session of the other call
PeerStarts ==
  \E sid \in PeerStreamSids, cs \in PeerCallSids \cup {None} :
    peer.socks = <<>> /\ PeerStart(sid, cs)

\* a further start message on the other connection
PeerRestarts ==
  \E sid \in PeerStreamSids :
    /\ peer.socks # <<>>
    /\ Len(peer.socks) < MaxConns
    /\ PeerStart(sid, None)

PeerEvents ==
  \/ PeerStarts
  \/ PeerRestarts
  \/ PeerStop
  \/ \E k \in 1..MaxPeerSocks : PeerOpen(k)
  \/ PeerTwilioClose
  \/ \E k \in 1..MaxPeerSocks : PeerEndCallDelta(k)
  \/ PeerEndCallTimer
  \/ \E k \in 1..MaxPeerSocks : PeerAiErrorMessage(k)
  \/ \E k \in 1..MaxPeerSocks : PeerAiError(k)
  \/ \E k \in 1..MaxPeerSocks, code \in CloseCodes : PeerAiClose(k, code)
  \/ \E rc \in 1..RetryLimit : PeerRetryTimer(rc)

\* calls originated for either session
BothCalls ==
  \/ \E sid \in AllCallSids, prompt \in Prompts : MakeCallCreate(sid, prompt)
  \/ \E call \in [sid : AllCallSids, prompt : Prompts] : MakeCallStore(call)

\* two sessions of two calls, interleaved; the other connection may see a
\* further start message
NextTwoCalls ==
  \/ BothCalls
  \/ Starts(CallSids)
  \/ Lifecycle
  \/ PeerEvents

SpecTwoCalls == Init /\ [][NextTwoCalls]_vars

(* ------------------------------- claims --------------------------------- *)
SpeechStartedHandled == evt.type = "input_audio_buffer.speech_started"
AudioDeltaHandled == evt.type = "response.audio.delta"

C2_ClearBeforeAudio ==
  [][needClear => ~MediaBeforeClear(twSent')]_vars

\* C3: speech_started handled while response R is active and the adapter
\* connection is open sends response.cancel with response_id R on it.
C3_CancelActiveResponse ==
  (SpeechStartedHandled /\ evt.active # 0 /\ AiOpen)
    => \E i \in 1..Len(aiSent) :
         /\ aiSent[i].to = openAiWs
         /\ aiSent[i].msg.type = "response.cancel"
         /\ aiSent[i].msg.response_id = RespId(evt.active)

C3_Witness ==
  /\ SpeechStartedHandled
  /\ evt.active = 2
  /\ AiOpen
  /\ aiSent # <<>>
  /\ aiSent[1].msg = [type |-> "response.cancel", response_id |-> RespId(2)]

\* C4: no audio delta of a response that was active at a handled
\* speech_started is forwarded to the telephony socket afterwards.
C4_NoAudioOfInterruptedResponse ==
  (AudioDeltaHandled /\ evt.resp \in interrupted) => ~HasMedia(twSent)

TimersScheduled == timersPending + timersFired
TimerFired == evt.type = "end-call-timer"

\* C5: as soon as the transcript deltas received so far, concatenated,
\* contain [END_CALL], the grace-delay timer has been scheduled.
C5_MarkerSchedulesTimer == markerHeard => TimersScheduled >= 1

\* C6: the end-of-call transition is taken at most once in a session: at
\* most one grace-delay timer is ever scheduled.
C6_AtMostOneTimer == TimersScheduled <= 1

\* C7: when the grace-delay timer has fired, neither the telephony socket
\* nor the adapter socket is left open: each is closing or closed.
C7_TimerClosesBoth ==
  TimerFired => (tw # "open" /\ ~AiOpen)

\* the role a completing signal commits under
RoleOf(type) ==
  IF type = "response.audio_transcript.delta" THEN "assistant"
  ELSE IF type = "conversation.item.input_audio_transcription.completed"
  THEN "user"
  ELSE "none"

\* C8: the conversation log is append-only, and a step appends at most one
\* entry, whose role is that of the completing signal the step handled.
C8_LogAppendOnly ==
  [][\/ conversation' = conversation
     \/ /\ Len(conversation') = Len(conversation) + 1
        /\ SubSeq(conversation', 1, Len(conversation)) = conversation
        /\ conversation'[Len(conversation')].role = RoleOf(evt'.type)]_vars

C8_Witness ==
  /\ Len(conversation) = 2
  /\ conversation[1].role = "assistant"
  /\ conversation[2].role = "user"
  /\ evt.type = "conversation.item.input_audio_transcription.completed"

AdapterOpened == evt.type = "open"

Range(f) == {f[i] : i \in DOMAIN f}

\* C9: the registry lookup made when an adapter connection opens returns
\* the stored prompt at most once per call id: a lookup that returns a prompt
\* is never made under a key an earlier lookup already returned a prompt for.
C9_ClaimOnce ==
  [][(AdapterOpened' /\ evt'.prompt # None) => evt'.key \notin claimed]_vars

\* C10: when the registry holds a prompt under the call id the start message
\* carried, the instructions of the session.update contain that prompt.
C10_InstructionsContainPrompt ==
  (AdapterOpened /\ startCallSid # None
     /\ activeCallPrompts[startCallSid] # None)
    => \E i \in 1..Len(aiSent) :
         /\ aiSent[i].msg.type = "session.update"
         /\ activeCallPrompts[startCallSid] \in Range(aiSent[i].msg.instructions)

ScenarioDone == ScenarioPos = Len(Scenario)

\* C11: after the fragments "Thank you for your time.", " Goodbye.",
\* " [END_CALL]" the log holds exactly the two assistant turns
\* "Thank you for your time." and "Goodbye.", in that order, and the
\* grace-delay timer has been scheduled.
C11_ScenarioTurns ==
  ScenarioDone =>
    /\ conversation = <<Entry("assistant", Trim(FragThanks)),
                        Entry("assistant", Trim(FragGoodbye))>>
    /\ TimersScheduled >= 1

C11_Witness ==
  /\ ScenarioDone
  /\ evt.type = "response.audio_transcript.delta"
  /\ evt.detected
  /\ Len(conversation) = 2
  /\ conversation[2].content = <<"G", "o", "o", "d", "b", "y", "e", ".">>

\* C12: no entry of the conversation log contains the end-of-call marker
\* [END_CALL].
C12_NoMarkerInLog ==
  \A i \in 1..Len(conversation) : ~Includes(conversation[i].content, END_CALL)

\* the adapter sockets that are connecting or open
LiveSocks == {k \in 1..Len(socks) : socks[k].st \in {"connecting", "open"}}

\* C13: every adapter connection that has reported ready has been sent
\* exactly one session.update, the connections opened by a retry included.
C13_OneSessionUpdate ==
  \A k \in 1..Len(socks) : socks[k].ready => socks[k].cfg = 1

\* C14: a session opens at most 3 retry connections after the initial one.
C14_AtMostThreeRetries == Len(socks) <= 1 + RetryLimit

\* C15: a session has at most one adapter connection that is connecting or
\* open.
C15_OneLiveConnection == Cardinality(LiveSocks) <= 1

\* nothing the session has scheduled or started is still under way: no
\* timer is pending and no adapter socket is connecting or closing
Settled ==
  /\ timersPending = 0
  /\ RetryPending = 0
  /\ \A k \in 1..Len(socks) : socks[k].st \in {"open", "closed"}

AllAdaptersClosed == \A k \in 1..Len(socks) : socks[k].st = "closed"

\* C16: when the telephony socket has closed and everything the session had
\* under way has run, every adapter connection of the session is closed.
C16_TelephonyCloseClosesAdapter ==
  (tw = "closed" /\ Settled) => AllAdaptersClosed

\* C17: when the adapter connections of a started session have closed for
\* good (no retry is pending), the telephony socket does not stay open.
C17_AdapterCloseClosesTelephony ==
  (started /\ Settled /\ AllAdaptersClosed) => tw # "open"

\* C18: once both connections of a session bound to call id C are closed,
\* the prompt registry holds no entry for C.
C18_ClosedDropsPrompt ==
  (started /\ startCallSid # None /\ tw = "closed" /\ Settled
     /\ AllAdaptersClosed)
    => activeCallPrompts[startCallSid] = None

\* the instructions of a session whose lookup found no prompt
FallbackInstructions ==
  CASE impl = "v3" -> <<"No specific task provided.">>
    [] impl = "p1" -> <<"baseMessage">>
    [] impl = "v2" -> <<"SYSTEM_MESSAGE">>
    [] impl = "v1" -> <<"SYSTEM_MESSAGE">>

\* C19: when the registry has no entry for the call as the adapter connection
\* reports open, the handler still sends one session.update, on the open
\* connection, carrying the fallback instructions; and a media frame that
\* arrives while that connection is open is forwarded to it as an
\* input_audio_buffer.append.
C19_FallbackWithoutEntry ==
  /\ (AdapterOpened /\ evt.prompt = None) =>
       aiSent = <<[to |-> evt.k, rs |-> "open",
                   msg |-> [type |-> "session.update",
                            instructions |-> FallbackInstructions]]>>
  /\ (evt.type = "media" /\ AiOpen /\ claimed = {}) =>
       aiSent = <<[to |-> openAiWs, rs |-> "open",
                   msg |-> [type |-> "input_audio_buffer.append",
                            audio |-> evt.payload]]>>

\* a stream that named a call the registry does not know has been configured
\* with the fallback and has had a media frame forwarded
C19_Witness ==
  /\ evt.type = "media"
  /\ startCallSid # None
  /\ activeCallPrompts[startCallSid] = None
  /\ claimed = {}
  /\ AiOpen
  /\ socks[openAiWs].cfg = 1
  /\ Len(aiSent) = 1
  /\ aiSent[1].msg.type = "input_audio_buffer.append"

\* the input_audio_buffer.append messages of the last step that were handed
\* to an open socket
AppendsSent ==
  {i \in 1..Len(aiSent) :
     /\ aiSent[i].msg.type = "input_audio_buffer.append"
     /\ aiSent[i].rs = "open"}

\* C20: a caller audio frame is forwarded only on an adapter connection
\* that has already been sent its session.update.
C20_ConfiguredBeforeAudio ==
  \A i \in AppendsSent : socks[aiSent[i].to].cfg >= 1

\* audio is forwarded on the second connection of a session, which has been
\* configured, while the first one opened and was never sent a session.update
C20_Witness ==
  /\ AppendsSent # {}
  /\ openAiWs = 2
  /\ socks[2].cfg >= 1
  /\ socks[1].ready
  /\ socks[1].cfg = 0

MediaHandled == evt.type = "media"

\* what a session holds: the stream id, its sockets, the transcripts, the
\* identifiers, the timers and the registry
sessionVars ==
  <<streamSid, started, tw, socks, openAiWs, textVars, respVars, nextResp,
    timerVars, regVars>>

\* C21: a media frame handled while openAiWs is null or not open sends
\* nothing on either socket and changes nothing the session holds; and an
\* input_audio_buffer.append is only ever sent by the handler of a media
\* frame, carrying that frame's payload, so a dropped payload is not sent
\* by a later step.
C21_MediaDroppedWhenNotOpen ==
  [][/\ (MediaHandled' /\ ~AiOpen) =>
          /\ aiSent' = <<>>
          /\ twSent' = <<>>
          /\ UNCHANGED sessionVars
     /\ \A i \in 1..Len(aiSent') :
          aiSent'[i].msg.type = "input_audio_buffer.append" =>
            /\ MediaHandled'
            /\ aiSent'[i].msg.audio = evt'.payload]_vars

\* a media frame arrived while the adapter socket was still connecting
C21_Witness ==
  /\ MediaHandled
  /\ openAiWs # 0
  /\ socks[openAiWs].st = "connecting"
  /\ aiSent = <<>>

\* an adapter socket of the session has failed
AdapterFailed == \E k \in 1..Len(socks) : socks[k].err

\* C22: when an adapter connection has failed, no retry is pending and
\* every adapter connection is closed, the telephony socket is not left
\* open.
C22_FailureClosesTelephony ==
  (started /\ AdapterFailed /\ Settled /\ AllAdaptersClosed) => tw # "open"

\* the last step handled a message that is unparseable or lacks a field
MalformedHandled ==
  \/ evt.type = "malformed"
  \/ evt.type = "start" /\ evt.streamSid = None

\* C23: the handler of a malformed message changes nothing the session
\* holds.
C23_MalformedDropped ==
  [][MalformedHandled' => UNCHANGED sessionVars]_vars

\* C24: every message handed to openAiWs.send in a step is handed to a
\* socket whose readyState is OPEN at that call.
C24_SendsOnOpenSocket ==
  \A i \in 1..Len(aiSent) : aiSent[i].rs = "open"

\* C25: close is called on a socket, telephony or adapter, only while that
\* socket is open, never on one that is closing or closed, and at most once
\* per socket, whichever of the stop case, the close handlers and the
\* end-of-call timer make the call.
C25_NoCloseOnClosedTelephony ==
  [][/\ twCloses' # twCloses => (tw = "open" /\ twCloses' = 1)
     /\ \A k \in 1..Len(socks) :
          socks'[k].closes # socks[k].closes =>
            (socks[k].st = "open" /\ socks'[k].closes = 1)]_vars

\* v1: two end-of-call timers have fired, the second on sockets the first
\* had begun to close, and close was called once on each socket
C25_Witness ==
  /\ impl = "v1"
  /\ TimerFired
  /\ timersFired = 2
  /\ twCloses = 1
  /\ openAiWs # 0
  /\ socks[openAiWs].closes = 1

TranscriptionHandled ==
  evt.type = "conversation.item.input_audio_transcription.completed"

\* C26: the handler of a transcription-completed event appends the trimmed
\* transcript to the log as one user turn when it is not empty, with or
\* without final punctuation, and appends nothing when it is empty.
C26_UserTurnCommitted ==
  [][TranscriptionHandled' =>
       conversation' =
         IF Trim(evt'.transcript) # <<>>
         THEN Append(conversation, Entry("user", Trim(evt'.transcript)))
         ELSE conversation]_vars

StopHandled == evt.type = "stop"

\* C27: the handler of a stop message requests the close of the adapter
\* socket openAiWs holds when that socket is open, touches no other adapter
\* socket, leaves the telephony socket as it is, sends nothing, and leaves
\* the stream id, the log, the buffer and the identifiers unchanged.
C27_StopClosesAdapterOnly ==
  [][StopHandled' =>
       /\ tw' = tw
       /\ Len(socks') = Len(socks)
       /\ \A k \in 1..Len(socks) :
            socks'[k].st =
              IF k = openAiWs /\ socks[k].st = "open" THEN "closing"
              ELSE socks[k].st
       /\ aiSent' = <<>>
       /\ twSent' = <<>>
       /\ UNCHANGED <<streamSid, openAiWs, textVars, respVars, timerVars,
                      regVars>>]_vars

\* a stop message has closed the open adapter socket and the telephony
\* socket is still open
C27_Witness ==
  /\ StopHandled
  /\ tw = "open"
  /\ openAiWs # 0
  /\ socks[openAiWs].st = "closing"
  /\ socks[openAiWs].ready
  /\ ~socks[openAiWs].err

SpeechStoppedHandled == evt.type = "input_audio_buffer.speech_stopped"

\* C28: the handler of input_audio_buffer.speech_stopped leaves isSpeaking
\* false, sends nothing on either socket and leaves the tracked
\* identifiers, the buffer, the log, the sockets and the timers unchanged.
C28_SpeechStoppedOnlyClearsFlag ==
  [][SpeechStoppedHandled' =>
       /\ isSpeaking' = FALSE
       /\ aiSent' = <<>>
       /\ twSent' = <<>>
       /\ UNCHANGED <<currentResponseId, currentMessageId, textVars,
                      streamSid, tw, socks, openAiWs, timerVars, regVars>>]_vars

\* speech stopped after an interruption of a tracked response: the flag is
\* down and the identifiers are still tracked
C28_Witness ==
  /\ SpeechStoppedHandled
  /\ impl = "v3"
  /\ ~isSpeaking
  /\ interrupted # {}
  /\ currentResponseId # None
  /\ currentMessageId # None

\* C29: a media frame is passed to the telephony socket by the handler of
\* response.audio.delta only while no caller speech is under way and a
\* stream id is bound, and it carries that stream id and the payload of the
\* delta.
C29_AudioForwardedWhenNotInterrupted ==
  AudioDeltaHandled =>
    \A i \in 1..Len(twSent) :
      twSent[i].event = "media" =>
        /\ ~userSpeaking
        /\ streamSid # None
        /\ twSent[i].streamSid = streamSid
        /\ twSent[i].payload = evt.delta

MarkerDetected ==
  evt.type = "response.audio_transcript.delta" /\ evt.detected

\* C30: the handler that detects the marker changes the readyState of
\* neither socket; the session starts closing the telephony socket only in
\* the timer callback; and an audio delta handled while a timer is pending,
\* with a stream id bound and no caller speech under way, is forwarded.
C30_GraceBeforeClose ==
  [][/\ MarkerDetected' => (tw' = tw /\ socks' = socks)
     /\ (tw = "open" /\ tw' = "closing") => TimerFired'
     /\ (AudioDeltaHandled' /\ timersPending > 0 /\ streamSid # None
           /\ ~userSpeaking)
          => twSent' = <<MediaFrame(evt'.delta)>>]_vars

\* audio of the closing sentence is forwarded between the detection of the
\* marker and the timer, with both sockets open
C30_Witness ==
  /\ AudioDeltaHandled
  /\ timersPending > 0
  /\ timersFired = 0
  /\ markerHeard
  /\ tw = "open"
  /\ AiOpen
  /\ HasMedia(twSent)

\* C32: once the telephony socket has closed, no step creates another
\* adapter socket.
C32_NoConnectionAfterTelephonyClose ==
  [][tw = "closed" => Len(socks') = Len(socks)]_vars

TranscriptDeltaHandled == evt.type = "response.audio_transcript.delta"

\* the committed assistant turns of a log, concatenated
RECURSIVE AssistantText(_)
AssistantText(log) ==
  IF log = <<>> THEN <<>>
  ELSE (IF Head(log).role = "assistant" THEN Head(log).content ELSE <<>>)
       \o AssistantText(Tail(log))

\* text without its whitespace and without the end-of-call marker
StripWhite(s) == SelectSeq(s, LAMBDA c : c \notin White)

RECURSIVE RemoveMarkers(_)
RemoveMarkers(s) ==
  IF Includes(s, END_CALL) THEN RemoveMarkers(ReplaceFirst(s, END_CALL)) ELSE s

Normalised(s) == RemoveMarkers(StripWhite(s))

\* C33: the committed assistant turns followed by the pending buffer hold
\* all the transcript text received: a transcript delta extends that text
\* by the delta, whitespace and the end-of-call marker aside, and no other
\* step changes it.
C33_NoTranscriptLost ==
  [][Normalised(AssistantText(conversation') \o completeMessage') =
       IF TranscriptDeltaHandled'
       THEN Normalised(AssistantText(conversation) \o completeMessage
                         \o evt'.delta)
       ELSE Normalised(AssistantText(conversation) \o completeMessage)]_vars

\* C34: speech_started handled while the service is generating no response
\* (none was created yet, or response.done was handled for the last one)
\* sends neither response.cancel nor conversation.item.truncate.
C34_NoCancelWithoutActiveResponse ==
  (SpeechStartedHandled /\ evt.active = 0) =>
    \A i \in 1..Len(aiSent) :
      aiSent[i].msg.type \notin {"response.cancel", "conversation.item.truncate"}

StartHandled == evt.type = "start"

\* C35: a start message handled by a session that has already handled one
\* leaves the stream id as it is and creates no adapter socket.
C35_StartAtMostOnce ==
  [][(started /\ StartHandled') =>
       /\ streamSid' = streamSid
       /\ openAiWs' = openAiWs
       /\ Len(socks') = Len(socks)]_vars

OwnKeys == StreamSids \cup CallSids
PeerKeys == PeerStreamSids \cup PeerCallSids

\* the last step handled an event of this session, of the other session
OwnEvent ==
  evt.type \in {"start", "open", "close", "error", "stop", "twilio-close"}
PeerEvent ==
  evt.type \in {"peer-start", "peer-open", "peer-event"}

\* C31: with the sessions of two calls interleaved, an event of one session
\* leaves the other session's variables and the other call's entries in
\* both maps as they were, and its registry lookup does not use a key of
\* the other call.
C31_SessionsIsolated ==
  [][/\ OwnEvent' =>
          /\ peer' = peer
          /\ \A k \in PeerKeys : activeCallPrompts'[k] = activeCallPrompts[k]
          /\ \A sid \in PeerStreamSids :
               streamToCallSid'[sid] = streamToCallSid[sid]
          /\ evt'.type = "open" => evt'.key \notin PeerKeys
     /\ PeerEvent' =>
          /\ UNCHANGED <<streamSid, started, tw, socks, openAiWs, textVars,
                         respVars, nextResp, timerVars>>
          /\ \A k \in OwnKeys : activeCallPrompts'[k] = activeCallPrompts[k]
          /\ \A sid \in StreamSids :
               streamToCallSid'[sid] = streamToCallSid[sid]
          /\ evt'.type = "peer-open" => evt'.key \notin OwnKeys]_vars

====
